---- MODULE Spec2Model ----
\* The widget grid of good-neighbor: the Grid's in-memory widget collection,
\* its load cycle, the intra-type reorder batches, the container order it
\* keeps in localStorage and the events widgets send it, run against a
\* backend that stores one position per widget.
EXTENDS Integers, Sequences, FiniteSets, TLC

\* ------------------------------------------------------------------ bounds
MaxPos == 2          \* initial backend positions are drawn from 0..MaxPos
MaxLoads == 3        \* load() calls issued in one behaviour
MaxBatches == 2      \* accepted reorder batches in one behaviour
MaxDeletes == 1      \* confirmed delete gestures in one behaviour
MaxSorts == 1        \* completed Sortable drags in one behaviour
MaxMoves == 2        \* handleContainerReorder calls in one behaviour
MaxUpdates == 1      \* 'widget-updated' events in one behaviour
MaxSaves == 1        \* Save clicks in one behaviour
MaxHomepages == 3    \* homepage ids the backend issues in one behaviour
MaxSelectorLoads == 3 \* completed loadHomepages calls in one behaviour
MaxFailures == 1     \* failed requests of the manage dialog in one behaviour

\* ------------------------------------------------------------- the widgets
ShortcutIds == {"A", "B", "C"}
IframeIds == {"F"}
Ids == ShortcutIds \cup IframeIds
GhostId == "ghost"
EventIds == Ids \cup {GhostId}
Sides == {"before", "after"}
WidgetType == {"iframe", "shortcut"}
TypeOf(id) == IF id \in IframeIds THEN "iframe" ELSE "shortcut"
StoreOrder == <<"A", "B", "C", "F">>
\* the values a widget's properties take
Props == {"p0", "p1"}
\* the type tags a stored container order can hold: the enum's two, and tags
\* written by a build that knew more types
TypeTags == WidgetType \cup {"query", "notes", "clock"}
GhostType == "ghost-type"
EventTypes == TypeTags \cup {GhostType}

VARIABLES
  backend,      \* [Ids -> [present, position]]: the backend's widget store
  widgets,      \* WidgetGrid.widgets: sequence of [id, type, position]
  isLoading,    \* WidgetGrid.isLoading
  isEditMode,   \* WidgetGrid.isEditMode
  view,         \* what the Grid's innerHTML shows: "loading", "grid", "error"
  dom,          \* [WidgetType -> Seq(Ids)]: the children of each rendered container
  sortable,     \* [WidgetType -> BOOLEAN]: the container of the type holds a Sortable instance
  elements,     \* [Ids -> [state, attrs]]: the widget elements in the Grid
  saves,        \* every Save click: [id, properties, before, attached, stage]
  gesture,      \* the last pointer gesture a widget element received: [id, kind]
  homepageStore,   \* the backend's homepages: [ids, default, next]
  homepages,       \* HomepageSelector.homepages: sequence of [homepage_id, is_default]
  currentHomepage, \* HomepageSelector.currentHomepage, NoHomepage for null
  savedHomepageId, \* localStorage: the item 'good-neighbor-current-homepage', 0 when absent
  selectorLoads,   \* loadHomepages calls that have run to the end of their try block
  loads,        \* every listWidgets() call: [stage, ok, data, rank]
  batches,      \* every accepted reorder batch
  deletes,      \* every confirmed delete: [id, attached, stage]
  alerts,       \* number of alert() notifications shown
  console,      \* the last diagnostic written to the console
  emitted,      \* the last 'widgets-reordered' event a container dispatched
  sorts,        \* completed Sortable drags so far
  budget,       \* [loads, batches, deletes, sorts, moves, updates, saves]: the gestures one behaviour may hold
  containerOrder, \* WidgetGrid.containerOrder
  storage,      \* localStorage: the item under CONTAINER_ORDER_KEY
  moves,        \* the exit each handleContainerReorder call so far has taken
  now           \* the clock new Date() reads

vars == <<backend, widgets, isLoading, isEditMode, view, dom, sortable, elements, saves, gesture, loads, batches,
          deletes, alerts, console, emitted, sorts, budget,
          containerOrder, storage, moves, now,
          homepageStore, homepages, currentHomepage, savedHomepageId, selectorLoads>>

\* the state of the homepage selector and of the homepages it manages
selectorVars == <<homepageStore, homepages, currentHomepage, savedHomepageId, selectorLoads>>

\* ----------------------------------------------------------- array helpers
Min(a, b) == IF a < b THEN a ELSE b
Max(a, b) == IF a > b THEN a ELSE b

\* Array.prototype.findIndex on the id: 0-based, -1 when absent
findIndex(seq, id) ==
  IF \E i \in 1..Len(seq) : seq[i].id = id
  THEN (CHOOSE i \in 1..Len(seq) : seq[i].id = id /\ \A j \in 1..(i - 1) : seq[j].id # id) - 1
  ELSE -1

\* Array.prototype.find on the id
HasId(seq, id) == findIndex(seq, id) # -1

\* the start index Array.prototype.splice uses: negative counts from the end,
\* and the result is clamped to 0..length
SpliceStart(seq, k) == IF k < 0 THEN Max(Len(seq) + k, 0) ELSE Min(k, Len(seq))

\* seq.splice(k, 1)
SpliceRemove(seq, k) ==
  LET s == SpliceStart(seq, k)
  IN SubSeq(seq, 1, s) \o SubSeq(seq, s + 2, Len(seq))

\* seq.splice(k, 0, x)
SpliceInsert(seq, k, x) ==
  LET s == SpliceStart(seq, k)
  IN SubSeq(seq, 1, s) \o <<x>> \o SubSeq(seq, s + 1, Len(seq))

\* one step of a stable sort: x goes after every element whose position is
\* not greater than its own
InsertByPosition(x, sorted) ==
  LET k == Cardinality({i \in 1..Len(sorted) : sorted[i].position <= x.position})
  IN SubSeq(sorted, 1, k) \o <<x>> \o SubSeq(sorted, k + 1, Len(sorted))

\* seq.sort((a, b) => a.position - b.position); Array.prototype.sort is stable
RECURSIVE SortByPosition(_)
SortByPosition(seq) ==
  IF seq = <<>> THEN <<>>
  ELSE InsertByPosition(seq[Len(seq)], SortByPosition(SubSeq(seq, 1, Len(seq) - 1)))

OfType(seq, type) == SelectSeq(seq, LAMBDA w : w.type = type)
IdsOf(seq) == [i \in 1..Len(seq) |-> seq[i].id]
IdSet(seq) == {seq[i].id : i \in 1..Len(seq)}

\* ---------------------------------------------------------------- backend
\* GET /api/widgets: every stored widget, sorted by position
BackendList(b) ==
  LET stored == SelectSeq(StoreOrder, LAMBDA id : b[id].present)
      asWidgets == [i \in 1..Len(stored) |->
                      [id |-> stored[i], type |-> TypeOf(stored[i]),
                       position |-> b[stored[i]].position,
                       properties |-> b[stored[i]].properties,
                       updated_at |-> b[stored[i]].updated_at]]
  IN SortByPosition(asWidgets)

\* PATCH /api/widgets/{id}/position: changes the position and nothing else
BackendSetPosition(b, id, position) == [b EXCEPT ![id].position = position]

\* PUT /api/widgets/{id}: replaces the properties of the widget
BackendUpdate(b, id, properties) == [b EXCEPT ![id].properties = properties]

\* DELETE /api/widgets/{id}
BackendDelete(b, id) == [b EXCEPT ![id].present = FALSE]

\* ----------------------------------------------------------- homepage store
HomepageIds == 1..MaxHomepages

\* currentHomepage = null, and the undefined that Array.prototype.find returns
NoHomepage == [homepage_id |-> 0, is_default |-> FALSE]

\* GET /api/homepages/: the stored homepages, oldest first
RECURSIVE ListFrom(_, _)
ListFrom(store, id) ==
  IF id >= store.next THEN <<>>
  ELSE (IF id \in store.ids
        THEN <<[homepage_id |-> id, is_default |-> store.default = id]>>
        ELSE <<>>) \o ListFrom(store, id + 1)
ListHomepages(store) == ListFrom(store, 1)

\* POST /api/homepages/: the new homepage gets the next id
CreateHomepage(store, is_default) ==
  [ids |-> store.ids \cup {store.next},
   default |-> IF is_default THEN store.next ELSE store.default,
   next |-> store.next + 1]

\* PATCH /api/homepages/{id}/default
SetDefaultHomepage(store, id) == [store EXCEPT !.default = id]

\* DELETE /api/homepages/{id}; newDefault is the homepage the backend makes
\* the default (0 for none) when the deleted one was
DeleteHomepage(store, id, newDefault) ==
  [store EXCEPT !.ids = @ \ {id},
                !.default = IF store.default = id THEN newDefault ELSE @]

\* ------------------------------------------------------------------ render
\* grouped after widgets.forEach has run over ws: a type the Map does not
\* have gets an empty array first, then the widget is pushed onto its array
RECURSIVE GroupInto(_, _)
GroupInto(grouped, ws) ==
  IF ws = <<>> THEN grouped
  ELSE LET type == ws[1].type
           withKey == IF type \in DOMAIN grouped THEN grouped ELSE grouped @@ (type :> <<>>)
       IN GroupInto([withKey EXCEPT ![type] = Append(@, ws[1])], Tail(ws))

\* a Map that starts with an empty array for every type of the enum
groupWidgetsByType_Seeded(ws) == GroupInto([type \in WidgetType |-> <<>>], ws)

\* WidgetGrid.groupWidgetsByType: a Map from the types that have widgets to
\* their widgets, in collection order
groupWidgetsByType(ws) == GroupInto(<<>>, ws)

\* WidgetGrid.render: the loading view while isLoading, else one container
\* per type holding that type's widgets in collection order
RenderView(loading) == IF loading THEN "loading" ELSE "grid"
RenderDom(ws, loading) ==
  IF loading THEN [type \in WidgetType |-> <<>>]
  ELSE LET widgetsByType == groupWidgetsByType(ws)
       IN [type \in WidgetType |->
             IF type \in DOMAIN widgetsByType THEN IdsOf(widgetsByType[type]) ELSE <<>>]

NoDom == [type \in WidgetType |-> <<>>]

\* a container that creates its Sortable whatever the Grid's mode is
UpdateSortable_Always(instance, inEditMode) == TRUE

\* WidgetContainer.updateSortable: whether the container holds a Sortable
\* instance afterwards, given whether it held one and whether the enclosing
\* grid container carries the class edit-mode
UpdateSortable(instance, inEditMode) ==
  IF inEditMode /\ ~instance THEN TRUE
  ELSE IF ~inEditMode /\ instance THEN FALSE
  ELSE instance

\* BaseWidget.state
WidgetState == {"normal", "hover", "edit"}

\* a widget that has no element in the Grid
NoElement == [state |-> "none", attrs |-> "none"]
NoElements == [id \in Ids |-> NoElement]
NoGesture == [id |-> "", kind |-> ""]

\* createWidgetElement and the element's connectedCallback: one element per
\* widget of the collection, its attributes taken from the widget's
\* properties, in the normal state
RenderElements(ws, loading) ==
  [id \in Ids |->
     IF ~loading /\ HasId(ws, id)
     THEN [state |-> "normal", attrs |-> ws[findIndex(ws, id) + 1].properties]
     ELSE NoElement]

\* no container on screen: disconnectedCallback has destroyed every Sortable
NoSortable == [type \in WidgetType |-> FALSE]

\* WidgetGrid.render: every container is a new element without a Sortable,
\* appended under a grid container whose class is edit-mode exactly when
\* isEditMode; its connectedCallback renders it and runs updateSortable
RenderSortable(ws, loading, editMode) ==
  [type \in WidgetType |->
     ~loading /\ OfType(ws, type) # <<>> /\ UpdateSortable(FALSE, editMode)]

\* Array.prototype.includes and Array.prototype.indexOf (0-based, -1 when absent)
Includes(seq, x) == \E i \in 1..Len(seq) : seq[i] = x
indexOf(seq, x) ==
  IF Includes(seq, x)
  THEN (CHOOSE i \in 1..Len(seq) : seq[i] = x /\ \A j \in 1..(i - 1) : seq[j] # x) - 1
  ELSE -1

\* Array.from(widgetsByType.keys()): the types in the order a Map first saw them
AvailableTypes(ws) ==
  LET firsts == SelectSeq([i \in 1..Len(ws) |-> i],
                          LAMBDA i : \A j \in 1..(i - 1) : ws[j].type # ws[i].type)
  IN [k \in 1..Len(firsts) |-> ws[firsts[k]].type]

\* availableTypes.forEach: push every type the order does not include
RECURSIVE PushMissing(_, _)
PushMissing(order, types) ==
  IF types = <<>> THEN order
  ELSE PushMissing(IF Includes(order, types[1]) THEN order ELSE Append(order, types[1]),
                   SubSeq(types, 2, Len(types)))

\* JSON.stringify of an array of strings and JSON.parse of the result
JSONStringify(order) == [json |-> order]
JSONParse(item) == item.json

\* a render that rebuilds the order from the types that have widgets
RenderOrder_Rebuilt(order, ws, loading) ==
  IF loading THEN order ELSE AvailableTypes(ws)

\* what render() leaves in this.containerOrder: nothing changes while
\* loading; else renderContainers seeds an empty order and pushes new types
RenderOrder(order, ws, loading) ==
  IF loading THEN order
  ELSE PushMissing(IF Len(order) = 0 THEN AvailableTypes(ws) ELSE order, AvailableTypes(ws))

\* what render() leaves in localStorage: renderContainers saves the order
\* only when it seeds it
RenderStorage(item, order, ws, loading) ==
  IF ~loading /\ Len(order) = 0 THEN JSONStringify(AvailableTypes(ws)) ELSE item

\* replacing innerHTML detaches every widget element that was on screen, so a
\* delete still in flight on one of them can no longer bubble to the Grid
Detach(ds) == [i \in 1..Len(ds) |-> [ds[i] EXCEPT !.attached = FALSE]]

\* ------------------------------------------------------------------- loads
NewLoad == [stage |-> "sent", ok |-> TRUE, data |-> <<>>, rank |-> 0]
Resolved(ls) == Cardinality({i \in 1..Len(ls) : ls[i].stage = "done"})

\* ------------------------------------------------------------------- Init
\* every assignment of positions 0..MaxPos to the three shortcuts: dense,
\* with gaps and with duplicates
InitBackends ==
  {b \in [Ids -> [present : {TRUE}, position : 0..MaxPos,
                   properties : {"p0"}, updated_at : {0}]] : b["F"].position = 0}

\* every backend that stores some of the four widgets, none included
AnyBackends ==
  {b \in [Ids -> [present : BOOLEAN, position : 0..MaxPos,
                   properties : {"p0"}, updated_at : {0}]] :
     /\ b["F"].position = 0
     /\ \A id \in Ids : ~b[id].present => b[id].position = 0}

\* the backend whose shortcut positions are already 0, 1, 2
DenseBackend ==
  [id \in Ids |-> [present |-> TRUE,
                   position |-> IF id = "B" THEN 1 ELSE IF id = "C" THEN 2 ELSE 0,
                   properties |-> "p0", updated_at |-> 0]]

\* connectedCallback: loadContainerOrder(), render() of the empty collection
\* (which saves an order that is empty), then loadWidgets()
InitGrid(backends, b, orders) ==
  /\ containerOrder \in orders
  /\ storage = JSONStringify(containerOrder)
  /\ moves = <<>>
  /\ now = 1
  /\ backend \in backends
  /\ budget = b
  /\ widgets = <<>>
  /\ isLoading = TRUE
  /\ isEditMode = FALSE
  /\ view = "loading"
  /\ dom = NoDom
  /\ sortable = NoSortable
  /\ elements = NoElements
  /\ saves = <<>>
  /\ gesture = NoGesture
  /\ loads = <<NewLoad>>
  /\ batches = <<>>
  /\ deletes = <<>>
  /\ alerts = 0
  /\ console = ""
  /\ emitted = [containerType |-> "", widgetIds |-> <<>>]
  /\ sorts = 0

\* the page with a selector that is not used: no homepage stored, none saved
InitWithOrder(backends, b, orders) ==
  /\ InitGrid(backends, b, orders)
  /\ homepageStore = [ids |-> {}, default |-> 0, next |-> 1]
  /\ homepages = <<>>
  /\ currentHomepage = NoHomepage
  /\ savedHomepageId = 0
  /\ selectorLoads = 0

\* a browser whose localStorage has no stored order
InitWith(backends, b) == InitWithOrder(backends, b, {<<>>})

\* ------------------------------------------------------------ loadWidgets
\* reorder batches whose Promise.all has not settled; each will still call
\* loadWidgets when it resolves
Pending == Cardinality({b \in 1..Len(batches) : batches[b].status = "pending"})
InFlight(b) == batches[b].inflight # {}

\* WidgetGrid.refresh, called on 'widget-created'
Refresh ==
  /\ Len(loads) + Pending < budget.loads
  /\ isLoading' = TRUE
  /\ view' = "loading"
  /\ dom' = NoDom
  /\ sortable' = NoSortable
  /\ elements' = NoElements
  /\ loads' = Append(loads, NewLoad)
  /\ deletes' = Detach(deletes)
  /\ saves' = Detach(saves)
  /\ UNCHANGED <<backend, widgets, isEditMode, batches, alerts, console, emitted, sorts, budget, selectorVars, gesture,
                 containerOrder, storage, moves, now>>

\* the retry button of the error view
Retry ==
  /\ view = "error"
  /\ Len(loads) + Pending < budget.loads
  /\ isLoading' = TRUE
  /\ view' = "loading"
  /\ dom' = NoDom
  /\ sortable' = NoSortable
  /\ elements' = NoElements
  /\ loads' = Append(loads, NewLoad)
  /\ deletes' = Detach(deletes)
  /\ saves' = Detach(saves)
  /\ UNCHANGED <<backend, widgets, isEditMode, batches, alerts, console, emitted, sorts, budget, selectorVars, gesture,
                 containerOrder, storage, moves, now>>

\* the backend answers a GET /api/widgets, or the request fails
ServeList(n, ok) ==
  /\ n \in 1..Len(loads)
  /\ loads[n].stage = "sent"
  /\ loads' = [loads EXCEPT ![n] = [stage |-> "resp", ok |-> ok,
                                    data |-> IF ok THEN BackendList(backend) ELSE <<>>,
                                    rank |-> 0]]
  /\ UNCHANGED <<backend, widgets, isLoading, isEditMode, view, dom, sortable, elements, batches,
                 deletes, saves, alerts, console, emitted, sorts, budget, selectorVars, gesture,
                 containerOrder, storage, moves, now>>

\* a continuation that drops the response of a load when a newer load has
\* been issued
LoadedWidgets_IgnoreStale(ls, n, ws) == IF n = Len(ls) THEN ls[n].data ELSE ws

\* what a fulfilled listWidgets() leaves in this.widgets
LoadedWidgets(ls, n, ws) == ls[n].data

\* a continuation whose catch block drops the collection and leaves the
\* loading flag set
LoadResolve_FailureClears(n) ==
  /\ n \in 1..Len(loads)
  /\ loads[n].stage = "resp"
  /\ loads' = [loads EXCEPT ![n].stage = "done", ![n].rank = Resolved(loads) + 1]
  /\ deletes' = Detach(deletes)
  /\ saves' = Detach(saves)
  /\ IF loads[n].ok
     THEN /\ widgets' = LoadedWidgets(loads, n, widgets)
          /\ isLoading' = FALSE
          /\ view' = RenderView(FALSE)
          /\ dom' = RenderDom(widgets', FALSE)
          /\ sortable' = RenderSortable(widgets', FALSE, isEditMode)
          /\ elements' = RenderElements(widgets', FALSE)
          /\ containerOrder' = RenderOrder(containerOrder, widgets', FALSE)
          /\ storage' = RenderStorage(storage, containerOrder, widgets', FALSE)
          /\ console' = console
     ELSE /\ widgets' = <<>>
          /\ isLoading' = isLoading
          /\ view' = "error"
          /\ dom' = NoDom
          /\ sortable' = NoSortable
          /\ elements' = NoElements
          /\ console' = "Failed to load widgets:"
          /\ UNCHANGED <<containerOrder, storage>>
  /\ UNCHANGED <<backend, isEditMode, batches, alerts, emitted, sorts, budget, selectorVars, gesture, moves, now>>

\* the continuation of loadWidgets after the await
LoadResolve(n) ==
  /\ n \in 1..Len(loads)
  /\ loads[n].stage = "resp"
  /\ loads' = [loads EXCEPT ![n].stage = "done", ![n].rank = Resolved(loads) + 1]
  /\ isLoading' = FALSE
  /\ deletes' = Detach(deletes)
  /\ saves' = Detach(saves)
  /\ IF loads[n].ok
     THEN /\ widgets' = LoadedWidgets(loads, n, widgets)
          /\ view' = RenderView(FALSE)
          /\ dom' = RenderDom(widgets', FALSE)
          /\ sortable' = RenderSortable(widgets', FALSE, isEditMode)
          /\ elements' = RenderElements(widgets', FALSE)
          /\ containerOrder' = RenderOrder(containerOrder, widgets', FALSE)
          /\ storage' = RenderStorage(storage, containerOrder, widgets', FALSE)
          /\ console' = console
     ELSE /\ widgets' = widgets
          /\ view' = "error"
          /\ dom' = NoDom
          /\ sortable' = NoSortable
          /\ elements' = NoElements
          /\ console' = "Failed to load widgets:"
          /\ UNCHANGED <<containerOrder, storage>>
  /\ UNCHANGED <<backend, isEditMode, batches, alerts, emitted, sorts, budget, selectorVars, gesture, moves, now>>

\* ---------------------------------------------------------------- edit mode
\* the click handler of the edit-mode button
ToggleEditMode ==
  /\ view = "grid"
  /\ isEditMode' = ~isEditMode
  /\ view' = RenderView(isLoading)
  /\ dom' = RenderDom(widgets, isLoading)
  /\ sortable' = RenderSortable(widgets, isLoading, isEditMode')
  /\ elements' = RenderElements(widgets, isLoading)
  /\ containerOrder' = RenderOrder(containerOrder, widgets, isLoading)
  /\ storage' = RenderStorage(storage, containerOrder, widgets, isLoading)
  /\ deletes' = Detach(deletes)
  /\ saves' = Detach(saves)
  /\ UNCHANGED <<backend, widgets, isLoading, loads, batches, alerts, console, emitted, sorts,
                 budget, selectorVars, gesture, moves, now>>

\* the handlers the Grid registers in attachEventListeners
GridListeners == {"widget-deleted", "widget-updated", "container-reorder", "widget-reorder"}

\* WidgetContainer.handleSortEnd: Sortable has moved the child from oldIndex
\* to newIndex; the container dispatches 'widgets-reordered' with the ids of
\* its children, and the Grid runs the listener it has for that event
SortEnd(type, oldIndex, newIndex) ==
  /\ view = "grid"
  /\ sortable[type]
  /\ sorts < budget.sorts
  /\ oldIndex \in 0..(Len(dom[type]) - 1)
  /\ newIndex \in 0..(Len(dom[type]) - 1)
  /\ oldIndex # newIndex
  /\ dom' = [dom EXCEPT ![type] =
               SpliceInsert(SpliceRemove(dom[type], oldIndex), newIndex, dom[type][oldIndex + 1])]
  /\ emitted' = [containerType |-> type, widgetIds |-> dom'[type]]
  /\ sorts' = sorts + 1
  /\ IF "widgets-reordered" \in GridListeners
     THEN FALSE
     ELSE UNCHANGED <<backend, widgets, isLoading, isEditMode, view, sortable, elements, loads, batches,
                      deletes, saves, alerts, console, budget, selectorVars, gesture, containerOrder, storage, moves, now>>

\* ------------------------------------------------------- handleWidgetReorder
\* the four-way branch without the shift a removal in front of the target causes
InsertIndex_NoShift(draggedIndex, targetIndex, position) ==
  IF draggedIndex < targetIndex /\ position = "after" THEN targetIndex
  ELSE IF draggedIndex < targetIndex /\ position = "before" THEN targetIndex
  ELSE IF draggedIndex > targetIndex /\ position = "after" THEN targetIndex + 1
  ELSE targetIndex

\* the four-way branch that computes the insert index
InsertIndex(draggedIndex, targetIndex, position) ==
  IF draggedIndex < targetIndex /\ position = "after" THEN targetIndex
  ELSE IF draggedIndex < targetIndex /\ position = "before" THEN targetIndex - 1
  ELSE IF draggedIndex > targetIndex /\ position = "after" THEN targetIndex + 1
  ELSE targetIndex

\* the widgets of the dragged widget's type, sorted by position
SameTypeWidgets(ws, draggedId) ==
  SortByPosition(OfType(ws, ws[findIndex(ws, draggedId) + 1].type))

\* sameTypeWidgets after the two splices
NewSequence(ws, draggedId, targetId, position) ==
  LET sameTypeWidgets == SameTypeWidgets(ws, draggedId)
      draggedIndex == findIndex(sameTypeWidgets, draggedId)
      targetIndex == findIndex(sameTypeWidgets, targetId)
      removed == SpliceRemove(sameTypeWidgets, draggedIndex)
      insertIndex == InsertIndex(draggedIndex, targetIndex, position)
  IN SpliceInsert(removed, insertIndex, sameTypeWidgets[draggedIndex + 1])

\* a renumbering that gives every loaded widget its index in the collection
Renumbered_WholeCollection(ws, order) ==
  [i \in 1..Len(ws) |->
     IF HasId(order, ws[i].id)
     THEN [ws[i] EXCEPT !.position = findIndex(order, ws[i].id)]
     ELSE [ws[i] EXCEPT !.position = i - 1]]

\* widget.position = index, on the objects this.widgets holds
Renumbered(ws, order) ==
  [i \in 1..Len(ws) |->
     IF HasId(order, ws[i].id)
     THEN [ws[i] EXCEPT !.position = findIndex(order, ws[i].id)]
     ELSE ws[i]]

\* if (draggedIndex === -1 || targetIndex === -1) return
MissingIndex(ws, draggedId, targetId) ==
  \/ findIndex(SameTypeWidgets(ws, draggedId), draggedId) = -1
  \/ findIndex(SameTypeWidgets(ws, draggedId), targetId) = -1

\* the position updateWidgetPosition carries for a widget: its index in the
\* new sequence
PositionSent_OneBased(order, id) ==
  (CHOOSE i \in 1..Len(order) : order[i] = id)
PositionSent(order, id) ==
  (CHOOSE i \in 1..Len(order) : order[i] = id) - 1

\* the two guards at the top of handleWidgetReorder
NotFound(ws, draggedId, targetId) == ~HasId(ws, draggedId) \/ ~HasId(ws, targetId)
TypesDiffer(ws, draggedId, targetId) ==
  ws[findIndex(ws, draggedId) + 1].type # ws[findIndex(ws, targetId) + 1].type

\* a handler that answers a cross-type drag with a reload
HandleWidgetReorder_ReloadOnReject(draggedId, targetId, position) ==
  /\ view = "grid"
  /\ IF NotFound(widgets, draggedId, targetId)
     THEN /\ console' = "Widget not found for reordering"
          /\ UNCHANGED <<backend, widgets, isLoading, isEditMode, view, dom, sortable, elements, loads,
                         batches, deletes, saves, alerts, emitted, sorts, budget, selectorVars, gesture,
                         containerOrder, storage, moves, now>>
     ELSE IF TypesDiffer(widgets, draggedId, targetId)
     THEN /\ console' = "Cannot reorder widgets of different types"
          /\ Len(loads) + Pending < budget.loads
          /\ isLoading' = TRUE
          /\ view' = "loading"
          /\ dom' = NoDom
          /\ sortable' = NoSortable
          /\ elements' = NoElements
          /\ loads' = Append(loads, NewLoad)
          /\ deletes' = Detach(deletes)
          /\ saves' = Detach(saves)
          /\ UNCHANGED <<backend, widgets, isEditMode, batches, alerts, emitted, sorts, budget, selectorVars, gesture,
                         containerOrder, storage, moves, now>>
     ELSE /\ Len(batches) < budget.batches
          /\ Len(loads) + Pending < budget.loads
          /\ ~MissingIndex(widgets, draggedId, targetId)
          /\ LET order == NewSequence(widgets, draggedId, targetId, position)
                 type == order[1].type
             IN /\ widgets' = Renumbered(widgets, order)
                /\ batches' =
                     Append([b \in 1..Len(batches) |->
                               IF InFlight(b) THEN [batches[b] EXCEPT !.overlapped = TRUE]
                               ELSE batches[b]],
                            [type |-> type,
                             before |-> IdsOf(SameTypeWidgets(widgets, draggedId)),
                             order |-> IdsOf(order),
                             inflight |-> IdSet(order),
                             status |-> "pending",
                             overlapped |-> \E b \in 1..Len(batches) : InFlight(b),
                             presentAtStart |-> {id \in Ids : backend[id].present},
                             backendBefore |-> OfType(BackendList(backend), type)])
          /\ UNCHANGED <<backend, isLoading, isEditMode, view, dom, sortable, elements, loads, deletes, saves,
                         alerts, console, emitted, sorts, budget, selectorVars, gesture,
                         containerOrder, storage, moves, now>>

\* handleWidgetReorder up to the first await
HandleWidgetReorder(draggedId, targetId, position) ==
  /\ view = "grid"
  /\ IF NotFound(widgets, draggedId, targetId)
     THEN /\ console' = "Widget not found for reordering"
          /\ UNCHANGED <<backend, widgets, isLoading, isEditMode, view, dom, sortable, elements, loads,
                         batches, deletes, saves, alerts, emitted, sorts, budget, selectorVars, gesture,
                         containerOrder, storage, moves, now>>
     ELSE IF TypesDiffer(widgets, draggedId, targetId)
     THEN /\ console' = "Cannot reorder widgets of different types"
          /\ UNCHANGED <<backend, widgets, isLoading, isEditMode, view, dom, sortable, elements, loads,
                         batches, deletes, saves, alerts, emitted, sorts, budget, selectorVars, gesture,
                         containerOrder, storage, moves, now>>
     ELSE /\ Len(batches) < budget.batches
          /\ Len(loads) + Pending < budget.loads
          /\ ~MissingIndex(widgets, draggedId, targetId)
          /\ LET order == NewSequence(widgets, draggedId, targetId, position)
                 type == order[1].type
             IN /\ widgets' = Renumbered(widgets, order)
                /\ batches' =
                     Append([b \in 1..Len(batches) |->
                               IF InFlight(b) THEN [batches[b] EXCEPT !.overlapped = TRUE]
                               ELSE batches[b]],
                            [type |-> type,
                             before |-> IdsOf(SameTypeWidgets(widgets, draggedId)),
                             order |-> IdsOf(order),
                             inflight |-> IdSet(order),
                             status |-> "pending",
                             overlapped |-> \E b \in 1..Len(batches) : InFlight(b),
                             presentAtStart |-> {id \in Ids : backend[id].present},
                             backendBefore |-> OfType(BackendList(backend), type)])
          /\ UNCHANGED <<backend, isLoading, isEditMode, view, dom, sortable, elements, loads, deletes, saves,
                         alerts, console, emitted, sorts, budget, selectorVars, gesture,
                         containerOrder, storage, moves, now>>

\* a join that settles with the first fulfilment, as Promise.any would
BatchStatus_FirstFulfilled(status, success, rest) ==
  IF status # "pending" THEN status
  ELSE IF success THEN "ok"
  ELSE "failed"

\* await Promise.all(updatePromises): the state of the join after one more
\* response, rest being the updates still unanswered
BatchStatus(status, success, rest) ==
  IF status # "pending" THEN status
  ELSE IF ~success THEN "failed"
  ELSE IF rest = {} THEN "ok"
  ELSE "pending"

\* the backend handles one PATCH of a batch and the response reaches
\* Promise.all: the first rejection rejects the batch (catch: console.error
\* and alert), the last fulfilment resolves it (loadWidgets)
ServeUpdate(b, id, ok) ==
  /\ b \in 1..Len(batches)
  /\ id \in batches[b].inflight
  /\ LET success == ok /\ backend[id].present
         rest == batches[b].inflight \ {id}
         status == BatchStatus(batches[b].status, success, rest)
     IN /\ backend' = IF success
                      THEN BackendSetPosition(backend, id, PositionSent(batches[b].order, id))
                      ELSE backend
        /\ batches' = [batches EXCEPT ![b].inflight = rest, ![b].status = status]
        /\ IF batches[b].status = "pending" /\ status = "failed"
           THEN /\ alerts' = alerts + 1
                /\ console' = "Failed to update widget positions:"
                /\ UNCHANGED <<isLoading, view, dom, sortable, elements, loads, deletes, saves>>
           ELSE IF batches[b].status = "pending" /\ status = "ok"
           THEN /\ isLoading' = TRUE
                /\ view' = "loading"
                /\ dom' = NoDom
                /\ sortable' = NoSortable
                /\ elements' = NoElements
                /\ loads' = Append(loads, NewLoad)
                /\ deletes' = Detach(deletes)
                /\ saves' = Detach(saves)
                /\ UNCHANGED <<alerts, console>>
           ELSE UNCHANGED <<isLoading, view, dom, sortable, elements, loads, deletes, saves, alerts, console>>
  /\ UNCHANGED <<widgets, isEditMode, emitted, sorts, budget, selectorVars, gesture,
                 containerOrder, storage, moves, now>>

\* ---------------------------------------------------- handleContainerReorder
\* a lookup of the target made before the dragged type is taken out
TargetIndex_Unshifted(order, draggedIndex, targetType) == indexOf(order, targetType)

\* the target's index, looked up after the dragged type has been spliced out
TargetIndex(order, draggedIndex, targetType) ==
  indexOf(SpliceRemove(order, draggedIndex), targetType)

\* position === 'before' ? targetIndex : targetIndex + 1
ContainerInsertIndex(targetIndex, position) ==
  IF position = "before" THEN targetIndex ELSE targetIndex + 1

\* a handler without its first early return
DraggedMissing_Unchecked(order, draggedType) == FALSE

\* if (draggedIndex === -1) return
DraggedMissing(order, draggedType) == indexOf(order, draggedType) = -1

\* a handler that reloads the widgets after it has saved the order
HandleContainerReorder_Reloading(draggedType, targetType, position) ==
  /\ view = "grid"
  /\ Len(moves) < budget.moves
  /\ LET draggedIndex == indexOf(containerOrder, draggedType)
         removed == SpliceRemove(containerOrder, draggedIndex)
         targetIndex == TargetIndex(containerOrder, draggedIndex, targetType)
         inserted == SpliceInsert(removed, ContainerInsertIndex(targetIndex, position),
                                  draggedType)
     IN IF DraggedMissing(containerOrder, draggedType)
        THEN /\ moves' = Append(moves, "dragged-missing")
             /\ UNCHANGED <<containerOrder, storage, view, dom, sortable, elements, deletes, saves, isLoading, loads>>
        ELSE IF targetIndex = -1
        THEN /\ moves' = Append(moves, "target-missing")
             /\ containerOrder' = removed
             /\ UNCHANGED <<storage, view, dom, sortable, elements, deletes, saves, isLoading, loads>>
        ELSE /\ moves' = Append(moves, "rendered")
             /\ containerOrder' = inserted
             /\ storage' = JSONStringify(inserted)
             /\ isLoading' = TRUE
             /\ view' = "loading"
             /\ dom' = NoDom
             /\ sortable' = NoSortable
             /\ elements' = NoElements
             /\ loads' = Append(loads, NewLoad)
             /\ deletes' = Detach(deletes)
             /\ saves' = Detach(saves)
  /\ UNCHANGED <<backend, widgets, isEditMode, batches, alerts, console,
                 emitted, sorts, budget, selectorVars, gesture, now>>

\* handleContainerReorder, with the render() it ends in
HandleContainerReorder(draggedType, targetType, position) ==
  /\ view = "grid"
  /\ Len(moves) < budget.moves
  /\ LET draggedIndex == indexOf(containerOrder, draggedType)
         removed == SpliceRemove(containerOrder, draggedIndex)
         targetIndex == TargetIndex(containerOrder, draggedIndex, targetType)
         inserted == SpliceInsert(removed, ContainerInsertIndex(targetIndex, position),
                                  draggedType)
     IN IF DraggedMissing(containerOrder, draggedType)
        THEN /\ moves' = Append(moves, "dragged-missing")
             /\ UNCHANGED <<containerOrder, storage, view, dom, sortable, elements, deletes, saves>>
        ELSE IF targetIndex = -1
        THEN /\ moves' = Append(moves, "target-missing")
             /\ containerOrder' = removed
             /\ UNCHANGED <<storage, view, dom, sortable, elements, deletes, saves>>
        ELSE /\ moves' = Append(moves, "rendered")
             /\ containerOrder' = RenderOrder(inserted, widgets, isLoading)
             /\ storage' = RenderStorage(JSONStringify(inserted), inserted, widgets, isLoading)
             /\ view' = RenderView(isLoading)
             /\ dom' = RenderDom(widgets, isLoading)
             /\ sortable' = RenderSortable(widgets, isLoading, isEditMode)
             /\ elements' = RenderElements(widgets, isLoading)
             /\ deletes' = Detach(deletes)
             /\ saves' = Detach(saves)
  /\ UNCHANGED <<backend, widgets, isLoading, isEditMode, loads, batches, alerts, console,
                 emitted, sorts, budget, selectorVars, gesture, now>>

\* ----------------------------------------------------------- widget-updated
\* a listener that rebuilds the widget from the event and loses its position
UpdatedWidget_Rebuilt(w, properties, stamp) ==
  [id |-> w.id, type |-> w.type, position |-> 0,
   properties |-> properties, updated_at |-> stamp]

\* widget.properties = properties; widget.updated_at = new Date().toISOString()
UpdatedWidget(w, properties, stamp) ==
  [w EXCEPT !.properties = properties, !.updated_at = stamp]

\* the Grid's 'widget-updated' listener: the first widget with the id is
\* patched in place, and nothing is rendered
WidgetUpdated(widgetId, properties) ==
  /\ view = "grid"
  /\ now <= budget.updates
  /\ now' = now + 1
  /\ widgets' = [i \in 1..Len(widgets) |->
                   IF i = findIndex(widgets, widgetId) + 1
                   THEN UpdatedWidget(widgets[i], properties, now)
                   ELSE widgets[i]]
  /\ UNCHANGED <<backend, isLoading, isEditMode, view, dom, sortable, elements, loads, batches, deletes, saves,
                 alerts, console, emitted, sorts, budget, selectorVars, gesture, containerOrder, storage, moves>>

\* ------------------------------------------------------------------ delete
\* a filter on the position of the deleted widget instead of its id
RemoveWidget_ByPosition(ws, id) ==
  SelectSeq(ws, LAMBDA w : ~HasId(ws, id) \/ w.position # ws[findIndex(ws, id) + 1].position)

\* this.widgets.filter((w) => w.id !== widgetId)
RemoveWidget(ws, id) == SelectSeq(ws, LAMBDA w : w.id # id)

\* BaseWidget.handleDelete up to the await: the user confirms and the
\* DELETE request leaves
DeleteRequest(id) ==
  /\ view = "grid"
  /\ \E type \in WidgetType : \E i \in 1..Len(dom[type]) : dom[type][i] = id
  /\ Len(deletes) < budget.deletes
  /\ deletes' = Append(deletes, [id |-> id, attached |-> TRUE, stage |-> "sent"])
  /\ UNCHANGED <<backend, widgets, isLoading, isEditMode, view, dom, sortable, elements, saves,
                 loads, batches, alerts, console, emitted, sorts, budget, selectorVars, gesture,
                 containerOrder, storage, moves, now>>

\* a handler that dispatches 'widget-deleted' before it knows the outcome of
\* the DELETE
ServeDelete_Optimistic(k, ok) ==
  /\ k \in 1..Len(deletes)
  /\ deletes[k].stage = "sent"
  /\ LET id == deletes[k].id
         success == ok /\ backend[id].present
         done == [deletes EXCEPT ![k].stage = "done"]
     IN IF success
        THEN /\ backend' = BackendDelete(backend, id)
             /\ IF deletes[k].attached
                THEN /\ widgets' = RemoveWidget(widgets, id)
                     /\ view' = RenderView(isLoading)
                     /\ dom' = RenderDom(widgets', isLoading)
                     /\ sortable' = RenderSortable(widgets', isLoading, isEditMode)
                     /\ elements' = RenderElements(widgets', isLoading)
                     /\ containerOrder' = RenderOrder(containerOrder, widgets', isLoading)
                     /\ storage' = RenderStorage(storage, containerOrder, widgets', isLoading)
                     /\ deletes' = Detach(done)
                     /\ saves' = Detach(saves)
                ELSE /\ deletes' = done
                     /\ saves' = saves
                     /\ UNCHANGED <<widgets, view, dom, sortable, elements, containerOrder, storage>>
             /\ UNCHANGED <<alerts, console>>
        ELSE /\ alerts' = alerts + 1
             /\ console' = "Failed to delete widget:"
             /\ backend' = backend
             /\ IF deletes[k].attached
                THEN /\ widgets' = RemoveWidget(widgets, id)
                     /\ view' = RenderView(isLoading)
                     /\ dom' = RenderDom(widgets', isLoading)
                     /\ sortable' = RenderSortable(widgets', isLoading, isEditMode)
                     /\ elements' = RenderElements(widgets', isLoading)
                     /\ containerOrder' = RenderOrder(containerOrder, widgets', isLoading)
                     /\ storage' = RenderStorage(storage, containerOrder, widgets', isLoading)
                     /\ deletes' = Detach(done)
                     /\ saves' = Detach(saves)
                ELSE /\ deletes' = done
                     /\ saves' = saves
                     /\ UNCHANGED <<widgets, view, dom, sortable, elements, containerOrder, storage>>
  /\ UNCHANGED <<isLoading, isEditMode, loads, batches, emitted, sorts, budget, selectorVars, gesture, moves, now>>

\* the backend handles the DELETE and handleDelete continues: on success it
\* dispatches 'widget-deleted', which reaches the Grid's listener (filter,
\* render) only from an element still in the Grid; on failure it alerts
ServeDelete(k, ok) ==
  /\ k \in 1..Len(deletes)
  /\ deletes[k].stage = "sent"
  /\ LET id == deletes[k].id
         success == ok /\ backend[id].present
         done == [deletes EXCEPT ![k].stage = "done"]
     IN IF success
        THEN /\ backend' = BackendDelete(backend, id)
             /\ IF deletes[k].attached
                THEN /\ widgets' = RemoveWidget(widgets, id)
                     /\ view' = RenderView(isLoading)
                     /\ dom' = RenderDom(widgets', isLoading)
                     /\ sortable' = RenderSortable(widgets', isLoading, isEditMode)
                     /\ elements' = RenderElements(widgets', isLoading)
                     /\ containerOrder' = RenderOrder(containerOrder, widgets', isLoading)
                     /\ storage' = RenderStorage(storage, containerOrder, widgets', isLoading)
                     /\ deletes' = Detach(done)
                     /\ saves' = Detach(saves)
                ELSE /\ deletes' = done
                     /\ saves' = saves
                     /\ UNCHANGED <<widgets, view, dom, sortable, elements, containerOrder, storage>>
             /\ UNCHANGED <<alerts, console>>
        ELSE /\ alerts' = alerts + 1
             /\ console' = "Failed to delete widget:"
             /\ deletes' = done
             /\ saves' = saves
             /\ UNCHANGED <<backend, widgets, view, dom, sortable, elements, containerOrder, storage>>
  /\ UNCHANGED <<isLoading, isEditMode, loads, batches, emitted, sorts, budget, selectorVars, gesture, moves, now>>

\* ---------------------------------------------------------- widget elements
\* the listener that leaves the hover state whatever state the widget is in
AfterMouseLeave_Unguarded(state) == "normal"

\* the 'mouseenter' and 'mouseleave' listeners of BaseWidget
AfterMouseEnter(state, inEditMode) ==
  IF state = "normal" /\ ~inEditMode THEN "hover" ELSE state
AfterMouseLeave(state) == IF state = "hover" THEN "normal" ELSE state

\* the views that hold the edit and delete buttons: the hover view, and the
\* normal view of an iframe widget while the Grid is in edit mode
ActionButtonsShown(id) ==
  \/ elements[id].state = "hover"
  \/ TypeOf(id) = "iframe" /\ elements[id].state = "normal" /\ isEditMode

MouseEnter(id) ==
  /\ view = "grid"
  /\ elements[id].state \in WidgetState
  /\ elements' = [elements EXCEPT ![id].state = AfterMouseEnter(@, isEditMode)]
  /\ gesture' = [id |-> id, kind |-> "mouseenter"]
  /\ UNCHANGED <<backend, widgets, isLoading, isEditMode, view, dom, sortable, saves, loads,
                 batches, deletes, alerts, console, emitted, sorts, budget, selectorVars,
                 containerOrder, storage, moves, now>>

MouseLeave(id) ==
  /\ view = "grid"
  /\ elements[id].state \in WidgetState
  /\ elements' = [elements EXCEPT ![id].state = AfterMouseLeave(@)]
  /\ gesture' = [id |-> id, kind |-> "mouseleave"]
  /\ UNCHANGED <<backend, widgets, isLoading, isEditMode, view, dom, sortable, saves, loads,
                 batches, deletes, alerts, console, emitted, sorts, budget, selectorVars,
                 containerOrder, storage, moves, now>>

\* the edit button: setState('edit')
EditClick(id) ==
  /\ view = "grid"
  /\ ActionButtonsShown(id)
  /\ elements' = [elements EXCEPT ![id].state = "edit"]
  /\ gesture' = [id |-> id, kind |-> "edit"]
  /\ UNCHANGED <<backend, widgets, isLoading, isEditMode, view, dom, sortable, saves, loads,
                 batches, deletes, alerts, console, emitted, sorts, budget, selectorVars,
                 containerOrder, storage, moves, now>>

\* the cancel button of the edit view: setState('normal')
CancelClick(id) ==
  /\ view = "grid"
  /\ elements[id].state = "edit"
  /\ elements' = [elements EXCEPT ![id].state = "normal"]
  /\ gesture' = [id |-> id, kind |-> "cancel"]
  /\ UNCHANGED <<backend, widgets, isLoading, isEditMode, view, dom, sortable, saves, loads,
                 batches, deletes, alerts, console, emitted, sorts, budget, selectorVars,
                 containerOrder, storage, moves, now>>

\* handleSave up to the await: extractPropertiesFromForm reads the form,
\* writes what it read into the element's attributes, and the PUT leaves
SaveClick(id, properties) ==
  /\ view = "grid"
  /\ elements[id].state = "edit"
  /\ Len(saves) < budget.saves
  /\ elements' = [elements EXCEPT ![id].attrs = properties]
  /\ saves' = Append(saves, [id |-> id, properties |-> properties,
                             before |-> elements[id].attrs,
                             attached |-> TRUE, stage |-> "sent"])
  /\ gesture' = [id |-> id, kind |-> "save"]
  /\ UNCHANGED <<backend, widgets, isLoading, isEditMode, view, dom, sortable, loads,
                 batches, deletes, alerts, console, emitted, sorts, budget, selectorVars,
                 containerOrder, storage, moves, now>>

\* the backend handles the PUT and handleSave continues: on success it
\* dispatches 'widget-updated', which reaches the Grid's listener only from
\* an element still in the Grid, and sets the normal state; on failure it
\* writes to the console and alerts
ServeSave(k, ok) ==
  /\ k \in 1..Len(saves)
  /\ saves[k].stage = "sent"
  /\ LET id == saves[k].id
         success == ok /\ backend[id].present
     IN IF success
        THEN /\ backend' = BackendUpdate(backend, id, saves[k].properties)
             /\ IF saves[k].attached
                THEN /\ widgets' = [i \in 1..Len(widgets) |->
                                      IF i = findIndex(widgets, id) + 1
                                      THEN UpdatedWidget(widgets[i], saves[k].properties, now)
                                      ELSE widgets[i]]
                     /\ now' = now + 1
                     /\ elements' = [elements EXCEPT ![id].state = "normal"]
                ELSE UNCHANGED <<widgets, now, elements>>
             /\ UNCHANGED <<alerts, console>>
        ELSE /\ alerts' = alerts + 1
             /\ console' = "Failed to save widget:"
             /\ UNCHANGED <<backend, widgets, now, elements>>
  /\ saves' = [saves EXCEPT ![k].stage = "done"]
  /\ UNCHANGED <<isLoading, isEditMode, view, dom, sortable, gesture, loads, batches, deletes,
                 emitted, sorts, budget, selectorVars, containerOrder, storage, moves>>

\* handleDelete when the user answers the confirm() with Cancel
DeleteDeclined(id) ==
  /\ view = "grid"
  /\ elements[id].state \in WidgetState
  /\ gesture' = [id |-> id, kind |-> "delete-declined"]
  /\ UNCHANGED <<backend, widgets, isLoading, isEditMode, view, dom, sortable, elements, saves,
                 loads, batches, deletes, alerts, console, emitted, sorts, budget, selectorVars,
                 containerOrder, storage, moves, now>>

\* -------------------------------------------------------- homepage selector
\* this.homepages.find((hp) => hp.homepage_id === id)
FindHomepage(list, id) ==
  IF \E i \in 1..Len(list) : list[i].homepage_id = id
  THEN list[CHOOSE i \in 1..Len(list) :
              list[i].homepage_id = id /\ \A j \in 1..(i - 1) : list[j].homepage_id # id]
  ELSE NoHomepage

\* this.homepages.find((hp) => hp.is_default) || this.homepages[0]
DefaultOrFirst(list) ==
  IF \E i \in 1..Len(list) : list[i].is_default
  THEN list[CHOOSE i \in 1..Len(list) :
              list[i].is_default /\ \A j \in 1..(i - 1) : ~list[j].is_default]
  ELSE list[1]

\* the homepage loadHomepages picks: the saved one when an id is saved, else
\* the default or the first
ChosenHomepage(list, savedId) ==
  IF savedId # 0 THEN FindHomepage(list, savedId) ELSE DefaultOrFirst(list)

\* dispatchHomepageChanged: the listener of main.ts logs the homepage and
\* calls widgetGrid.refresh()
HomepageChanged ==
  /\ Len(loads) + Pending < budget.loads
  /\ console' = "Homepage changed to:"
  /\ isLoading' = TRUE
  /\ view' = "loading"
  /\ dom' = NoDom
  /\ sortable' = NoSortable
  /\ elements' = NoElements
  /\ loads' = Append(loads, NewLoad)
  /\ deletes' = Detach(deletes)
  /\ saves' = Detach(saves)

\* what no handler of the selector touches
SelectorFrame ==
  UNCHANGED <<backend, widgets, isEditMode, batches, emitted, sorts, budget, gesture,
              containerOrder, storage, moves, now>>

\* loadHomepages against the store the preceding request left: the list is
\* fetched, a default homepage is created when the list is empty, the select
\* is rendered and the chosen homepage, if there is one, becomes current and
\* is announced; the catch block logs
LoadHomepagesFrom(store, okList, okCreate) ==
  LET listed == ListHomepages(store)
      creates == okList /\ Len(listed) = 0
      list == IF creates THEN <<[homepage_id |-> store.next, is_default |-> TRUE]>> ELSE listed
      homepage == ChosenHomepage(list, savedHomepageId)
  IN /\ selectorLoads < MaxSelectorLoads
     /\ creates => store.next <= MaxHomepages
     /\ IF okList /\ (creates => okCreate)
        THEN /\ homepageStore' = IF creates THEN CreateHomepage(store, TRUE) ELSE store
             /\ homepages' = list
             /\ selectorLoads' = selectorLoads + 1
             /\ IF homepage # NoHomepage
                THEN /\ currentHomepage' = homepage
                     /\ HomepageChanged
                ELSE UNCHANGED <<currentHomepage, console, isLoading, view, dom, sortable,
                                 elements, loads, deletes, saves>>
        ELSE /\ homepageStore' = store
             /\ homepages' = IF okList THEN listed ELSE homepages
             /\ console' = "Failed to load homepages:"
             /\ UNCHANGED <<selectorLoads, currentHomepage, isLoading, view, dom, sortable,
                            elements, loads, deletes, saves>>

\* loadHomepages as connectedCallback, refresh() and a rename call it
LoadHomepages(okList, okCreate) ==
  /\ LoadHomepagesFrom(homepageStore, okList, okCreate)
  /\ UNCHANGED <<savedHomepageId, alerts>>
  /\ SelectorFrame

\* the 'change' listener of the select
SelectHomepage(id) ==
  /\ FindHomepage(homepages, id) # NoHomepage
  /\ currentHomepage' = FindHomepage(homepages, id)
  /\ savedHomepageId' = id
  /\ HomepageChanged
  /\ UNCHANGED <<homepageStore, homepages, selectorLoads, alerts>>
  /\ SelectorFrame

\* a request of the manage dialog failed: the catch block logs and alerts
DialogFailure(diagnostic) ==
  /\ alerts < MaxFailures
  /\ console' = diagnostic
  /\ alerts' = alerts + 1
  /\ UNCHANGED <<homepageStore, homepages, currentHomepage, selectorLoads,
                 isLoading, view, dom, sortable, elements, loads, deletes, saves>>

\* the delete button of the manage dialog, confirmed: deleteHomepage, which
\* the backend refuses for the last homepage, then loadHomepages
DeleteHomepageClick(id, ok, newDefault, okList) ==
  /\ FindHomepage(homepages, id) # NoHomepage
  /\ Len(homepages) # 1
  /\ newDefault \in (homepageStore.ids \ {id}) \cup {0}
  /\ IF ok /\ id \in homepageStore.ids /\ Cardinality(homepageStore.ids) > 1
     THEN /\ LoadHomepagesFrom(DeleteHomepage(homepageStore, id, newDefault), okList, TRUE)
          /\ alerts' = alerts
     ELSE DialogFailure("Failed to delete homepage:")
  /\ savedHomepageId' = savedHomepageId
  /\ SelectorFrame

\* the add button of the manage dialog: createHomepage, then loadHomepages
AddHomepageClick(ok, okList) ==
  /\ homepageStore.next <= MaxHomepages
  /\ IF ok
     THEN /\ LoadHomepagesFrom(CreateHomepage(homepageStore, FALSE), okList, TRUE)
          /\ alerts' = alerts
     ELSE DialogFailure("Failed to create homepage:")
  /\ savedHomepageId' = savedHomepageId
  /\ SelectorFrame

\* a set-default button of the manage dialog: setDefaultHomepage, then
\* loadHomepages
SetDefaultClick(id, ok, okList) ==
  /\ FindHomepage(homepages, id) # NoHomepage
  /\ ~FindHomepage(homepages, id).is_default
  /\ IF ok /\ id \in homepageStore.ids
     THEN /\ LoadHomepagesFrom(SetDefaultHomepage(homepageStore, id), okList, TRUE)
          /\ alerts' = alerts
     ELSE DialogFailure("Failed to set default homepage:")
  /\ savedHomepageId' = savedHomepageId
  /\ SelectorFrame

\* ------------------------------------------------------------ specifications
\* one reorder gesture at a time, from every initial assignment of positions
InitReorder == InitWith(InitBackends, [loads |-> MaxLoads, batches |-> 1,
                                       deletes |-> 0, sorts |-> 0,
                                       moves |-> 0, updates |-> 0, saves |-> 0])

NextReorder ==
  \/ \E n \in 1..MaxLoads, ok \in BOOLEAN : ServeList(n, ok)
  \/ \E n \in 1..MaxLoads : LoadResolve(n)
  \/ \E draggedId \in EventIds, targetId \in EventIds, position \in Sides :
       HandleWidgetReorder(draggedId, targetId, position)
  \/ \E b \in 1..MaxBatches, id \in Ids, ok \in BOOLEAN : ServeUpdate(b, id, ok)

Spec == InitReorder /\ [][NextReorder]_vars

\* drags inside a container while the Grid is in edit mode
InitSort == InitWith(InitBackends, [loads |-> 2, batches |-> 1,
                                    deletes |-> 0, sorts |-> MaxSorts,
                                    moves |-> 0, updates |-> 0, saves |-> 0])

NextSort ==
  \/ Refresh
  \/ \E n \in 1..MaxLoads, ok \in BOOLEAN : ServeList(n, ok)
  \/ \E n \in 1..MaxLoads : LoadResolve(n)
  \/ ToggleEditMode
  \/ \E type \in WidgetType, oldIndex \in 0..3, newIndex \in 0..3 : SortEnd(type, oldIndex, newIndex)

SpecSort == InitSort /\ [][NextSort]_vars

\* two reorder gestures whose batches may overlap
InitRace == InitWith({DenseBackend}, [loads |-> MaxLoads, batches |-> MaxBatches,
                                      deletes |-> 0, sorts |-> 0,
                                      moves |-> 0, updates |-> 0, saves |-> 0])

NextRace ==
  \/ \E n \in 1..MaxLoads, ok \in BOOLEAN : ServeList(n, ok)
  \/ \E n \in 1..MaxLoads : LoadResolve(n)
  \/ \E draggedId \in Ids, targetId \in Ids, position \in Sides :
       HandleWidgetReorder(draggedId, targetId, position)
  \/ \E b \in 1..MaxBatches, id \in Ids, ok \in BOOLEAN : ServeUpdate(b, id, ok)

SpecRace == InitRace /\ [][NextRace]_vars

\* overlapping loads around a delete
InitLoads == InitWith({DenseBackend}, [loads |-> MaxLoads, batches |-> 0,
                                       deletes |-> MaxDeletes, sorts |-> 0,
                                       moves |-> 0, updates |-> 0, saves |-> 0])

NextLoads ==
  \/ Refresh
  \/ Retry
  \/ \E n \in 1..MaxLoads, ok \in BOOLEAN : ServeList(n, ok)
  \/ \E n \in 1..MaxLoads : LoadResolve(n)
  \/ \E id \in Ids : DeleteRequest(id)
  \/ \E k \in 1..MaxDeletes, ok \in BOOLEAN : ServeDelete(k, ok)

SpecLoads == InitLoads /\ [][NextLoads]_vars

\* the orders a browser can hold in localStorage: sequences of type tags
\* without repetition
Orders(tags) ==
  {o \in UNION {[1..n -> tags] : n \in 0..Cardinality(tags)} :
     \A i, j \in 1..Len(o) : o[i] = o[j] => i = j}

\* container drags on a loaded grid, from every stored order
InitOrder == InitWithOrder({DenseBackend},
                           [loads |-> 1, batches |-> 0, deletes |-> 0, sorts |-> 0,
                            moves |-> MaxMoves, updates |-> 0, saves |-> 0],
                           Orders(TypeTags))

NextOrder ==
  \/ \E n \in 1..MaxLoads, ok \in BOOLEAN : ServeList(n, ok)
  \/ \E n \in 1..MaxLoads : LoadResolve(n)
  \/ \E draggedType \in EventTypes, targetType \in EventTypes, position \in Sides :
       HandleContainerReorder(draggedType, targetType, position)

SpecOrder == InitOrder /\ [][NextOrder]_vars

\* loads, renders and the events widgets send to the Grid, from the stored
\* orders over a type that has widgets and one that has none
InitEvents == InitWithOrder({DenseBackend},
                            [loads |-> 2, batches |-> 0, deletes |-> 1, sorts |-> 0,
                             moves |-> 0, updates |-> MaxUpdates, saves |-> 0],
                            Orders({"iframe", "query"}))

NextEvents ==
  \/ Refresh
  \/ \E n \in 1..MaxLoads, ok \in BOOLEAN : ServeList(n, ok)
  \/ \E n \in 1..MaxLoads : LoadResolve(n)
  \/ ToggleEditMode
  \/ \E id \in Ids : DeleteRequest(id)
  \/ \E k \in 1..MaxDeletes, ok \in BOOLEAN : ServeDelete(k, ok)
  \/ \E widgetId \in EventIds, properties \in Props : WidgetUpdated(widgetId, properties)

SpecEvents == InitEvents /\ [][NextEvents]_vars

\* loads and renders of every collection the backend can hold
InitGroup == InitWith(AnyBackends, [loads |-> 2, batches |-> 0, deletes |-> 0, sorts |-> 0,
                                    moves |-> 0, updates |-> 0, saves |-> 0])

NextGroup ==
  \/ Refresh
  \/ \E n \in 1..MaxLoads, ok \in BOOLEAN : ServeList(n, ok)
  \/ \E n \in 1..MaxLoads : LoadResolve(n)
  \/ ToggleEditMode

SpecGroup == InitGroup /\ [][NextGroup]_vars

\* the widgets the pointer works on: one shortcut and the iframe
PointedIds == {"A", "F"}

\* pointer gestures, edits and saves on widget elements of a loaded grid
InitWidgets == InitWith({DenseBackend}, [loads |-> 2, batches |-> 0, deletes |-> 0, sorts |-> 0,
                                        moves |-> 0, updates |-> 0, saves |-> MaxSaves])

NextWidgets ==
  \/ Refresh
  \/ \E n \in 1..MaxLoads, ok \in BOOLEAN : ServeList(n, ok)
  \/ \E n \in 1..MaxLoads : LoadResolve(n)
  \/ ToggleEditMode
  \/ \E id \in PointedIds : MouseEnter(id)
  \/ \E id \in PointedIds : MouseLeave(id)
  \/ \E id \in PointedIds : EditClick(id)
  \/ \E id \in PointedIds : CancelClick(id)
  \/ \E id \in PointedIds, properties \in Props : SaveClick(id, properties)
  \/ \E k \in 1..MaxSaves, ok \in BOOLEAN : ServeSave(k, ok)

SpecWidgets == InitWidgets /\ [][NextWidgets]_vars

\* delete clicks, confirmed and declined, around loads and renders
InitDelete == InitWith({DenseBackend}, [loads |-> 2, batches |-> 0, deletes |-> MaxDeletes,
                                       sorts |-> 0, moves |-> 0, updates |-> 0, saves |-> 0])

NextDelete ==
  \/ Refresh
  \/ \E n \in 1..MaxLoads, ok \in BOOLEAN : ServeList(n, ok)
  \/ \E n \in 1..MaxLoads : LoadResolve(n)
  \/ ToggleEditMode
  \/ \E id \in Ids : DeleteDeclined(id)
  \/ \E id \in Ids : DeleteRequest(id)
  \/ \E k \in 1..MaxDeletes, ok \in BOOLEAN : ServeDelete(k, ok)

SpecDelete == InitDelete /\ [][NextDelete]_vars

\* the stores a backend can hold when the page opens: the ids issued so far,
\* some of them deleted since, one of the others the default or none
HomepageStores ==
  {s \in [ids : SUBSET HomepageIds, default : HomepageIds \cup {0}, next : 1..(MaxHomepages + 1)] :
     /\ \A id \in s.ids : id < s.next
     /\ s.default \in s.ids \cup {0}}

\* the selector's gestures, from every store and every saved homepage id,
\* while the Grid's requests wait for their answers
InitSelector ==
  /\ InitGrid({DenseBackend}, [loads |-> MaxLoads, batches |-> 0, deletes |-> 0, sorts |-> 0,
                               moves |-> 0, updates |-> 0, saves |-> 0], {<<>>})
  /\ homepageStore \in HomepageStores
  /\ homepages = <<>>
  /\ currentHomepage = NoHomepage
  /\ savedHomepageId \in HomepageIds \cup {0}
  /\ selectorLoads = 0

NextSelector ==
  \/ \E okList \in BOOLEAN, okCreate \in BOOLEAN : LoadHomepages(okList, okCreate)
  \/ \E id \in HomepageIds : SelectHomepage(id)
  \/ \E id \in HomepageIds, ok \in BOOLEAN, newDefault \in HomepageIds \cup {0}, okList \in BOOLEAN :
       DeleteHomepageClick(id, ok, newDefault, okList)
  \/ \E ok \in BOOLEAN, okList \in BOOLEAN : AddHomepageClick(ok, okList)
  \/ \E id \in HomepageIds, ok \in BOOLEAN, okList \in BOOLEAN : SetDefaultClick(id, ok, okList)

SpecSelector == InitSelector /\ [][NextSelector]_vars

\* ------------------------------------------------------------------ claims
PresentIds(b) == {id \in Ids : b[id].present}
PositionsOf(seq) == [i \in 1..Len(seq) |-> seq[i].position]
Dense(n) == [i \in 1..n |-> i - 1]
BackendOfType(type) == OfType(BackendList(backend), type)

\* nothing is in flight: every load has run its continuation and every
\* position update of every batch has been answered
Settled ==
  /\ \A n \in 1..Len(loads) : loads[n].stage = "done"
  /\ \A b \in 1..Len(batches) : batches[b].inflight = {}
  /\ \A k \in 1..Len(deletes) : deletes[k].stage = "done"

BatchResolves(b) ==
  b \in 1..Len(batches) /\ batches[b].status = "pending" /\ batches'[b].status = "ok"
BatchFails(b) ==
  b \in 1..Len(batches) /\ batches[b].status = "pending" /\ batches'[b].status = "failed"

\* C1: when the last position update of a batch succeeds, and no other batch
\* or delete ran beside it, the backend holds the widgets of that type at
\* positions 0..N-1, one each, in the order the handler computed.
C1_DenseRenumbering ==
  [][\A b \in 1..MaxBatches :
       (BatchResolves(b) /\ ~batches'[b].overlapped
          /\ PresentIds(backend') = batches[b].presentAtStart)
       => LET listed == OfType(BackendList(backend'), batches[b].type)
          IN /\ IdsOf(listed) = batches[b].order
             /\ PositionsOf(listed) = Dense(Len(batches[b].order))]_vars

\* a resolved batch of three widgets whose positions had a duplicate before
C1_Witness ==
  /\ Len(batches) = 1
  /\ batches[1].status = "ok"
  /\ Len(batches[1].order) = 3
  /\ batches[1].order # batches[1].before
  /\ PositionsOf(batches[1].backendBefore) = <<0, 2, 2>>
  /\ PositionsOf(BackendOfType(batches[1].type)) = <<0, 1, 2>>
  /\ Settled /\ view = "grid"
  /\ IdsOf(OfType(widgets, batches[1].type)) = batches[1].order

\* C2: once a failed batch has settled, the displayed order of its type and
\* the in-memory widgets of that type are the backend's from before the batch.
C2_FailedBatchRestoresBackendOrder ==
  \A b \in 1..Len(batches) :
    (batches[b].status = "failed" /\ Settled /\ Len(batches) = 1)
    => /\ (view = "grid" => dom[batches[b].type] = IdsOf(batches[b].backendBefore))
       /\ OfType(widgets, batches[b].type) = batches[b].backendBefore

\* C3: the step in which a batch fails shows an alert and issues a load().
C3_FailureAlertsAndReloads ==
  [][\A b \in 1..MaxBatches :
       BatchFails(b) => alerts' = alerts + 1 /\ Len(loads') = Len(loads) + 1]_vars

\* the reference result: the type's ids sorted by position, the dragged id
\* taken out and put back immediately before or after the target
ReferenceOrder(ws, draggedId, targetId, position) ==
  LET sorted == IdsOf(SortByPosition(OfType(ws, TypeOf(draggedId))))
      without == SelectSeq(sorted, LAMBDA id : id # draggedId)
      k == CHOOSE i \in 1..Len(without) : without[i] = targetId
  IN IF position = "before"
     THEN SubSeq(without, 1, k - 1) \o <<draggedId>> \o SubSeq(without, k, Len(without))
     ELSE SubSeq(without, 1, k) \o <<draggedId>> \o SubSeq(without, k + 1, Len(without))

\* C4: for distinct loaded widgets of one type and either side, the sequence
\* the handler persists is the reference result.  Only a step that starts a
\* batch can be such a call.
C4_PersistedSequenceIsReference ==
  [][batches' # batches =>
       \A draggedId \in Ids, targetId \in Ids, position \in Sides :
         (/\ draggedId # targetId
          /\ {draggedId, targetId} \subseteq IdSet(widgets)
          /\ TypeOf(draggedId) = TypeOf(targetId)
          /\ HandleWidgetReorder(draggedId, targetId, position))
         => batches'[Len(batches')].order
              = ReferenceOrder(widgets, draggedId, targetId, position)]_vars

\* [A,B,C] with C dropped before A is persisted as C, A, B
C4_Witness ==
  /\ Len(batches) = 1
  /\ batches[1].before = <<"A", "B", "C">>
  /\ batches[1].order = <<"C", "A", "B">>
  /\ batches[1].inflight = {}
  /\ batches[1].status = "ok"
  /\ backend["C"].position = 0 /\ backend["A"].position = 1 /\ backend["B"].position = 2

\* C5: a reorder between widgets of different types, or with an id that is
\* not loaded, changes no position and issues no position update and no load.
C5_RejectedReorderChangesNothing ==
  [][\/ UNCHANGED <<widgets, backend, batches, loads, isLoading, view, dom>>
     \/ ~\E draggedId \in EventIds, targetId \in EventIds, position \in Sides :
          /\ \/ ~({draggedId, targetId} \subseteq IdSet(widgets))
             \/ TypeOf(draggedId) # TypeOf(targetId)
          /\ HandleWidgetReorder(draggedId, targetId, position)]_vars

\* a cross-type drag was rejected on a loaded grid
C5_Witness ==
  /\ console = "Cannot reorder widgets of different types"
  /\ Len(widgets) = 4
  /\ batches = <<>>
  /\ Len(loads) = 1

\* C6: a widget dropped onto itself is rejected: no position changes, no
\* position update and no load is issued.
C6_SelfDropRejected ==
  [][\A id \in Ids, position \in Sides :
       (id \in IdSet(widgets) /\ HandleWidgetReorder(id, id, position))
       => UNCHANGED <<widgets, batches, loads>>]_vars

\* C7: every 'widgets-reordered' event a container has emitted is taken up by
\* the Grid as a batch that persists the event's id list.
C7_ReorderedEventPersisted ==
  emitted.widgetIds # <<>>
  => \E b \in 1..Len(batches) : batches[b].order = emitted.widgetIds

\* C8: with nothing in flight, the in-memory collection on screen is the
\* backend's widget list.
C8_SettledMatchesBackend ==
  (Settled /\ view = "grid") => widgets = BackendList(backend)

\* C9: after two overlapping batches on one type have both succeeded and
\* everything has settled, the backend positions of the type are 0..N-1
\* without duplicates and the displayed order is the backend's.
C9_OverlappingBatchesStayDense ==
  (/\ Len(batches) = 2
   /\ batches[1].overlapped /\ batches[2].overlapped
   /\ batches[1].type = batches[2].type
   /\ batches[1].status = "ok" /\ batches[2].status = "ok"
   /\ Settled /\ view = "grid")
  => /\ {backend[id].position : id \in IdSet(BackendOfType(batches[1].type))}
          = 0..(Len(BackendOfType(batches[1].type)) - 1)
     /\ dom[batches[1].type] = IdsOf(BackendOfType(batches[1].type))

\* C10: the continuation of every fulfilled load() overwrites the in-memory
\* collection with its own response, whenever it was issued; so after two
\* overlapping loads the collection is the response that resolved last.
C10_LastResolvedLoadWins ==
  [][\A n \in 1..MaxLoads :
       (n \in 1..Len(loads) /\ loads[n].stage = "resp" /\ loads[n].ok
          /\ loads'[n].stage = "done")
       => widgets' = loads[n].data /\ ~isLoading']_vars

\* load 2 was issued before load 3 and resolved after it, with another response
C10_Witness ==
  /\ Len(loads) = 3
  /\ \A n \in 1..3 : loads[n].stage = "done" /\ loads[n].ok
  /\ loads[2].rank = 3 /\ loads[3].rank = 2
  /\ loads[2].data # loads[3].data
  /\ widgets = loads[2].data
  /\ widgets # BackendList(backend)

C12_DisplayedInPositionOrder ==
  view = "grid"
  => \A type \in WidgetType :
       dom[type] = IdsOf(SortByPosition(OfType(widgets, type)))

\* the order [A,X,B,Y,C] of the scenario: X is "shortcut", Y is "iframe"
ScenarioOrder == <<"query", "shortcut", "notes", "iframe", "clock">>

\* C13 as stated: from [A,X,B,Y,C], before(X,Y) leaves the order as it is,
\* and after(X,Y) from there yields [A,B,Y,X,C].
C13_BeforeIsNoOp ==
  [][/\ (containerOrder = ScenarioOrder
          /\ HandleContainerReorder("shortcut", "iframe", "before"))
        => containerOrder' = ScenarioOrder
     /\ (containerOrder = ScenarioOrder
          /\ HandleContainerReorder("shortcut", "iframe", "after"))
        => containerOrder' = <<"query", "notes", "iframe", "shortcut", "clock">>]_vars

\* C13 amended: from [A,X,B,Y,C], before(X,Y) moves X next to Y, giving
\* [A,B,X,Y,C], and after(X,Y) from there yields [A,B,Y,X,C].
C13_BeforeMovesNextToTarget ==
  [][/\ (containerOrder = ScenarioOrder
          /\ HandleContainerReorder("shortcut", "iframe", "before"))
        => containerOrder' = <<"query", "notes", "shortcut", "iframe", "clock">>
     /\ (containerOrder = <<"query", "notes", "shortcut", "iframe", "clock">>
          /\ HandleContainerReorder("shortcut", "iframe", "after"))
        => containerOrder' = <<"query", "notes", "iframe", "shortcut", "clock">>]_vars

\* both calls were made on the stored order [A,X,B,Y,C] and the result
\* [A,B,Y,X,C] is in memory and in localStorage
C13_Witness ==
  /\ moves = <<"rendered", "rendered">>
  /\ containerOrder = <<"query", "notes", "iframe", "shortcut", "clock">>
  /\ storage = JSONStringify(containerOrder)
  /\ view = "grid"

\* C14: a container reorder whose dragged type is not in the order list
\* leaves the in-memory order and the stored order as they were.
C14_AbsentDraggedTypeChangesNothing ==
  [][\/ UNCHANGED <<containerOrder, storage>>
     \/ \A draggedType \in EventTypes :
          \/ Includes(containerOrder, draggedType)
          \/ ~\E targetType \in EventTypes, position \in Sides :
               HandleContainerReorder(draggedType, targetType, position)]_vars

\* the handler has twice returned at its first guard on a stored order of
\* three types, and the order is in memory and in localStorage as it was loaded
C14_Witness ==
  /\ moves = <<"dragged-missing", "dragged-missing">>
  /\ containerOrder = <<"iframe", "shortcut", "query">>
  /\ storage = JSONStringify(containerOrder)
  /\ view = "grid"

\* C15: a container reorder whose dragged type is in the order list and whose
\* target type is not there, or is the dragged type itself, leaves the
\* in-memory order and the stored order as they were.
C15_AbsentTargetChangesNothing ==
  [][\/ UNCHANGED <<containerOrder, storage>>
     \/ ~\E draggedType \in EventTypes, targetType \in EventTypes, position \in Sides :
          /\ Includes(containerOrder, draggedType)
          /\ targetType = draggedType \/ ~Includes(containerOrder, targetType)
          /\ HandleContainerReorder(draggedType, targetType, position)]_vars

\* C16: after every step that changes the in-memory container order, the
\* item stored in localStorage is that order.
C16_StoredOrderFollowsMemory ==
  [][containerOrder' # containerOrder => JSONParse(storage') = containerOrder']_vars

\* C17: a load or a render never removes an entry of the container order nor
\* moves it: the old order is a prefix of the new one, also while a type of
\* the order has no loaded widget; and every type that has a widget on a
\* rendered grid is in the order, the new ones behind the old.
C17_OrderOnlyGrowsAtEnd ==
  [][/\ Len(containerOrder') >= Len(containerOrder)
     /\ SubSeq(containerOrder', 1, Len(containerOrder)) = containerOrder
     /\ view' = "grid" =>
          \A i \in 1..Len(widgets') : Includes(containerOrder', widgets'[i].type)]_vars

\* the stored order was ["iframe"]; the load appended "shortcut" behind it,
\* and after the only iframe widget was deleted "iframe" is still first in
\* the order while no container is rendered for it
C17_Witness ==
  /\ containerOrder = <<"iframe", "shortcut">>
  /\ storage = JSONStringify(<<"iframe">>)
  /\ view = "grid"
  /\ Len(widgets) = 3
  /\ OfType(widgets, "iframe") = <<>>
  /\ dom["iframe"] = <<>>
  /\ Len(deletes) = 1 /\ deletes[1].id = "F" /\ deletes[1].stage = "done"

\* C18: a handleContainerReorder call sends nothing to the backend (no list,
\* no position update, no batch), leaves the backend, the in-memory widgets
\* and their positions as they were and keeps the grid on screen; when it
\* moves a type it stores the order it built and renders the containers again.
C18_ContainerReorderIsLocal ==
  [][moves' # moves =>
       /\ UNCHANGED <<backend, widgets, loads, batches, isLoading, view>>
       /\ moves'[Len(moves')] = "rendered" =>
            /\ Len(JSONParse(storage')) = Len(containerOrder)
            /\ \A i \in 1..Len(containerOrder) : Includes(JSONParse(storage'), containerOrder[i])
            /\ dom' = RenderDom(widgets, isLoading)]_vars

\* "iframe" was dragged in front of "shortcut" on a grid seeded as
\* [shortcut, iframe]: the new order is stored, the one load is still the
\* only request made and the widgets are the backend's
C18_Witness ==
  /\ moves = <<"rendered">>
  /\ containerOrder = <<"iframe", "shortcut">>
  /\ storage = JSONStringify(containerOrder)
  /\ Len(loads) = 1 /\ loads[1].stage = "done"
  /\ widgets = BackendList(backend)
  /\ backend = DenseBackend
  /\ view = "grid"

\* C19: a 'widget-updated' event for an id replaces the properties (and the
\* updated_at stamp) of the widget with that id and nothing else: ids, types,
\* positions, the other widgets and the collection order stay, no load() is
\* issued and the backend is not called; for an id that is not loaded the
\* collection is unchanged.
C19_UpdateEventPatchesOneWidget ==
  [][now' # now =>
       \A widgetId \in EventIds, properties \in Props :
         WidgetUpdated(widgetId, properties)
         => /\ Len(widgets') = Len(widgets)
            /\ \A i \in 1..Len(widgets) :
                 /\ widgets'[i].id = widgets[i].id
                 /\ widgets'[i].type = widgets[i].type
                 /\ widgets'[i].position = widgets[i].position
                 /\ widgets[i].id # widgetId => widgets'[i] = widgets[i]
                 /\ widgets[i].id = widgetId => widgets'[i].properties = properties
            /\ widgetId \notin IdSet(widgets) => widgets' = widgets
            /\ UNCHANGED <<backend, loads, isLoading, view, dom>>]_vars

\* B, at position 1, got new properties by an event; A, C and F are as loaded
C19_Witness ==
  /\ now = 2
  /\ Len(widgets) = 4
  /\ \E i \in 1..4 : /\ widgets[i].id = "B" /\ widgets[i].properties = "p1"
                       /\ widgets[i].position = 1 /\ widgets[i].updated_at = 1
                       /\ \A j \in 1..4 : j # i => widgets[j] = BackendList(backend)[j]
  /\ Len(loads) = 1
  /\ view = "grid"

\* C20: the step in which a 'widget-deleted' event reaches the Grid removes
\* the widget with the event's id and no other, keeps the remaining widgets
\* with their order and positions, renders the grid from them and issues no
\* load().
C20_DeleteEventRemovesOneWidget ==
  [][\A k \in 1..MaxDeletes :
       (/\ k \in 1..Len(deletes)
        /\ deletes[k].stage = "sent" /\ deletes'[k].stage = "done"
        /\ deletes[k].attached
        /\ backend[deletes[k].id].present /\ ~backend'[deletes[k].id].present)
       => /\ widgets' = SelectSeq(widgets, LAMBDA w : w.id # deletes[k].id)
          /\ Len(widgets') = Len(widgets) - 1
          /\ view' = "grid"
          /\ \A type \in WidgetType : dom'[type] = IdsOf(OfType(widgets', type))
          /\ UNCHANGED <<loads, isLoading>>]_vars

\* A, which shares position 0 with F, was deleted from the loaded grid: F, B
\* and C remain with their positions and only the first load was made
C20_Witness ==
  /\ Len(deletes) = 1 /\ deletes[1].id = "A" /\ deletes[1].stage = "done"
  /\ ~backend["A"].present
  /\ IdsOf(widgets) = <<"F", "B", "C">>
  /\ PositionsOf(widgets) = <<0, 1, 2>>
  /\ dom["shortcut"] = <<"B", "C">> /\ dom["iframe"] = <<"F">>
  /\ Len(loads) = 1
  /\ view = "grid"
\* C21: a container on screen holds a live Sortable exactly when the Grid is
\* in edit mode, through toggles, loads and re-renders, and a container
\* dispatches 'widgets-reordered' only while the Grid is in edit mode.
C21_SortableExactlyInEditMode ==
  /\ [](\A type \in WidgetType :
          /\ dom[type] # <<>> => (sortable[type] <=> isEditMode)
          /\ dom[type] = <<>> => ~sortable[type])
  /\ [][emitted' # emitted => isEditMode]_vars

\* both containers hold a Sortable after a reload in edit mode, and a drag
\* has completed
C21_Witness ==
  /\ view = "grid" /\ isEditMode
  /\ sortable["shortcut"] /\ sortable["iframe"]
  /\ Len(loads) = 2 /\ loads[2].stage = "done"
  /\ sorts = 1 /\ emitted.containerType = "shortcut"
\* C22: groupWidgetsByType partitions the collection: its keys are the types
\* that have a widget, every widget is in the group of its type exactly once
\* and in no other group, each group keeps the collection's relative order;
\* for the empty collection the mapping has no key and no container is drawn.
C22_GroupsPartitionCollection ==
  LET grouped == groupWidgetsByType(widgets)
      At(type, id) == {k \in 1..Len(grouped[type]) : grouped[type][k].id = id}
      IndexOf(id) == CHOOSE i \in 1..Len(widgets) : widgets[i].id = id
  IN /\ DOMAIN grouped = {widgets[i].type : i \in 1..Len(widgets)}
     /\ \A i \in 1..Len(widgets), type \in DOMAIN grouped :
          Cardinality(At(type, widgets[i].id)) = IF type = widgets[i].type THEN 1 ELSE 0
     /\ \A type \in DOMAIN grouped :
          /\ \A k \in 1..Len(grouped[type]) :
               \E i \in 1..Len(widgets) : grouped[type][k] = widgets[i]
          /\ \A k, l \in 1..Len(grouped[type]) :
               k < l => IndexOf(grouped[type][k].id) < IndexOf(grouped[type][l].id)
     /\ widgets = <<>> => DOMAIN grouped = {}
     /\ (widgets = <<>> /\ view = "grid") => \A type \in WidgetType : dom[type] = <<>>

\* a rendered collection in which the iframe sits between shortcuts
C22_Witness ==
  /\ view = "grid"
  /\ IdsOf(widgets) = <<"A", "F", "C">>
  /\ dom["shortcut"] = <<"A", "C">> /\ dom["iframe"] = <<"F">>

\* the empty collection rendered: the grid view without a container
C22_EmptyRendered ==
  /\ view = "grid" /\ widgets = <<>> /\ Len(loads) = 1 /\ loads[1].stage = "done"
\* C24: for distinct draggedType and targetType that are both in the
\* container order, handleContainerReorder leaves a permutation of the order
\* it found: no entry duplicated, lost or added, draggedType immediately
\* before (after) targetType, and the other entries in their old relative order.
C24_ReorderIsPermutation ==
  [][moves' # moves =>
       \A draggedType \in TypeTags, targetType \in TypeTags, position \in Sides :
         (/\ draggedType # targetType
          /\ Includes(containerOrder, draggedType)
          /\ Includes(containerOrder, targetType)
          /\ HandleContainerReorder(draggedType, targetType, position))
         => /\ Len(containerOrder') = Len(containerOrder)
            /\ \A type \in TypeTags :
                 Includes(containerOrder', type) <=> Includes(containerOrder, type)
            /\ \A i, j \in 1..Len(containerOrder') :
                 containerOrder'[i] = containerOrder'[j] => i = j
            /\ indexOf(containerOrder', draggedType) =
                 indexOf(containerOrder', targetType) + (IF position = "before" THEN -1 ELSE 1)
            /\ SelectSeq(containerOrder', LAMBDA type : type # draggedType) =
                 SelectSeq(containerOrder, LAMBDA type : type # draggedType)]_vars
\* C25: a batch starts with all N position updates issued and none
\* answered; a load is issued by a batch only in the step in which its last
\* update succeeds, when no update of the batch is in flight; a batch one of
\* whose updates failed never issues a load.
C25_ReloadAfterAllUpdates ==
  /\ [](/\ \A b \in 1..Len(batches) : batches[b].status = "ok" => batches[b].inflight = {}
        /\ Len(loads) = 1 + Cardinality({b \in 1..Len(batches) : batches[b].status = "ok"}))
  /\ [][/\ Len(batches') > Len(batches) =>
            LET new == batches'[Len(batches')]
            IN /\ new.status = "pending"
               /\ new.inflight = {new.order[i] : i \in 1..Len(new.order)}
               /\ Cardinality(new.inflight) = Len(new.order)
               /\ loads' = loads
        /\ Len(loads') > Len(loads) =>
            \E b \in 1..Len(batches) :
              /\ BatchResolves(b)
              /\ batches[b].inflight # {} /\ batches'[b].inflight = {}
              /\ \A id \in batches[b].inflight : backend'[id].position = PositionSent(batches[b].order, id)
        /\ (\E b \in 1..Len(batches) : BatchFails(b)) => loads' = loads]_vars

\* the reload of a batch of three, issued with every update answered
C25_Witness ==
  /\ Len(batches) = 1 /\ Len(batches[1].order) = 3
  /\ batches[1].status = "ok" /\ batches[1].inflight = {}
  /\ Len(loads) = 2 /\ loads[2].stage = "sent" /\ view = "loading"
\* C26: an accepted handleWidgetReorder on type T issues exactly one
\* position update for each loaded widget of type T and none for a widget of
\* another type, the loaded widgets of other types keep their positions, and
\* neither the handler nor a position update changes a widget's properties.
C26_UpdatesOnlyTheDraggedType ==
  [][ /\ Len(batches') > Len(batches) =>
          LET new == batches'[Len(batches')]
              sameType == {widgets[i].id : i \in {j \in 1..Len(widgets) : widgets[j].type = new.type}}
          IN /\ new.inflight = sameType
             /\ Len(new.order) = Cardinality(sameType)
             /\ \A id \in sameType : Cardinality({k \in 1..Len(new.order) : new.order[k] = id}) = 1
             /\ Len(widgets') = Len(widgets)
             /\ \A i \in 1..Len(widgets) :
                  /\ widgets'[i].id = widgets[i].id
                  /\ widgets'[i].properties = widgets[i].properties
                  /\ widgets[i].type # new.type => widgets'[i] = widgets[i]
             /\ backend' = backend
      /\ (\E b \in 1..Len(batches) : batches'[b].inflight # batches[b].inflight) =>
          /\ \A id \in Ids :
               /\ backend'[id].properties = backend[id].properties
               /\ TypeOf(id) \notin {batches[b].type : b \in 1..Len(batches)}
                    => backend'[id] = backend[id]
          /\ widgets' = widgets]_vars

\* a batch on the three shortcuts beside a loaded iframe, all answered
C26_Witness ==
  /\ Len(batches) = 1 /\ batches[1].type = "shortcut"
  /\ Len(batches[1].order) = 3 /\ batches[1].inflight = {}
  /\ HasId(widgets, "F") /\ widgets[findIndex(widgets, "F") + 1].position = 0
  /\ backend["F"].position = 0
\* C27: while a load() request has not run its continuation, the loading
\* flag is set and the loading view is shown, also when loads overlap and
\* one of them has resolved.
C27_LoadingWhileLoadInFlight ==
  (\E n \in 1..Len(loads) : loads[n].stage # "done") => (isLoading /\ view = "loading")
\* C23: a Cancel click on a widget in the edit state leaves it in the normal
\* state, sends nothing to the backend and lets no 'widget-updated' event
\* reach the Grid; a mouseenter or mouseleave on a widget in the edit state
\* leaves it in the edit state.
C23_CancelAndPointerInEdit ==
  [][gesture' # gesture =>
       \A id \in Ids :
         /\ (gesture'.id = id /\ gesture'.kind = "cancel") =>
              /\ elements[id].state = "edit"
              /\ elements'[id].state = "normal"
              /\ elements'[id].attrs = elements[id].attrs
              /\ UNCHANGED <<backend, saves, deletes, loads, batches, widgets, now>>
         /\ (gesture'.id = id /\ gesture'.kind \in {"mouseenter", "mouseleave"}
               /\ elements[id].state = "edit") =>
              /\ elements'[id].state = "edit"
              /\ UNCHANGED <<backend, saves, widgets, now>>]_vars

\* a widget in the edit state whose last gesture was the pointer leaving it
C23_Witness ==
  /\ view = "grid"
  /\ elements["A"].state = "edit"
  /\ gesture = [id |-> "A", kind |-> "mouseleave"]

\* a widget back in the normal state by a Cancel click
C23_Cancelled ==
  /\ view = "grid"
  /\ elements["F"].state = "normal"
  /\ gesture = [id |-> "F", kind |-> "cancel"]
\* C28: when the backend update of a Save fails, the widget stays in the
\* edit state, no 'widget-updated' event reaches the Grid, and the attributes
\* of the widget's element are the ones it had before the Save click.
C28_FailedSaveKeepsWidget ==
  [][alerts' # alerts =>
       \A k \in 1..Len(saves) :
         (saves[k].stage = "sent" /\ saves'[k].stage = "done" /\ saves[k].attached) =>
           LET id == saves[k].id
           IN /\ elements[id].state = "edit" => elements'[id].state = "edit"
              /\ widgets' = widgets /\ now' = now
              /\ elements'[id].attrs = saves[k].before]_vars
\* C29: a widget leaves the Grid's collection through a delete only in the
\* step in which the backend delete of its id succeeds; a declined
\* confirmation sends nothing to the backend and changes nothing; a delete
\* call that fails leaves the collection and the screen as they were.
C29_RemovedOnlyAfterBackendDelete ==
  [][ /\ \A id \in Ids :
          (HasId(widgets, id) /\ ~HasId(widgets', id) /\ loads' = loads) =>
            /\ backend[id].present /\ ~backend'[id].present
            /\ \E k \in 1..Len(deletes) :
                 deletes[k].id = id /\ deletes[k].stage = "sent" /\ deletes'[k].stage = "done"
      /\ (gesture' # gesture /\ gesture'.kind = "delete-declined") =>
            UNCHANGED <<backend, deletes, saves, loads, widgets, view, dom, elements>>
      /\ alerts' # alerts =>
            /\ \E k \in 1..Len(deletes) : deletes[k].stage = "sent" /\ deletes'[k].stage = "done"
            /\ UNCHANGED <<backend, widgets, view, dom, elements>>]_vars

\* a widget deleted by a confirmed click that followed a declined one
C29_Witness ==
  /\ gesture = [id |-> "B", kind |-> "delete-declined"]
  /\ Len(deletes) = 1 /\ deletes[1].id = "B" /\ deletes[1].stage = "done"
  /\ ~backend["B"].present
  /\ view = "grid" /\ IdsOf(widgets) = <<"A", "F", "C">>
  /\ elements["B"] = NoElement

\* a delete call that failed: the widget is stored, loaded and on screen
C29_FailedDelete ==
  /\ Len(deletes) = 1 /\ deletes[1].id = "B" /\ deletes[1].stage = "done"
  /\ alerts = 1 /\ backend["B"].present
  /\ view = "grid" /\ HasId(widgets, "B") /\ elements["B"].state = "normal"
\* C30: when a loadHomepages call of the selector has succeeded, the
\* selector's homepage list is not empty and currentHomepage is one of its
\* entries, also when the saved id names a homepage that is not stored any
\* more or the current homepage has just been deleted.
C30_CurrentHomepageInList ==
  [][selectorLoads' # selectorLoads =>
       /\ homepages' # <<>>
       /\ \E i \in 1..Len(homepages') : homepages'[i] = currentHomepage']_vars
====
